---- MODULE Spec2Model ----
(***************************************************************************)
(* A model of bambou's Session (src/bambou/session.go): the process-wide   *)
(* current session, the authentication and pagination headers, the URL     *)
(* resolution, the status-driven dispatch of send and the Storer           *)
(* operations built on it.                                                 *)
(*                                                                         *)
(* Every operation is synchronous: an action runs one whole call, the      *)
(* answers of the server to its successive HTTP requests being an input,   *)
(* and leaves the call's record (what was sent, what was returned) in      *)
(* `frame` until the caller takes the result (Return).  A panic ends the   *)
(* process: no action is enabled after it.                                 *)
(*                                                                         *)
(* Texts that the code only concatenates (URLs, header names, error texts) *)
(* are TLA+ strings; credentials are byte sequences, because base64 works  *)
(* on their bytes; decimal texts are sequences of one-character strings,   *)
(* because strconv works on their digits.                                  *)
(***************************************************************************)
EXTENDS Integers, Sequences, FiniteSets, TLC

VARIABLES
    currentSession,   \* var currentSession Storer: a session, or Nil
    session,          \* the Session structs: Certificate, Username, Password, root
    apiKey,           \* the API key held by each root object
    frame             \* the record of the call that has just run (op = "none": no call)

vars == <<currentSession, session, apiKey, frame>>

----------------------------------------------------------------------------
(* Bounds of the model.                                                    *)

MaxRedirects == 2     \* 300 answers the server gives to one operation, at most
MaxPage == 10         \* the largest FetchingInfo.Page
MaxChildren == 2      \* the longest children list given to AssignChildren

----------------------------------------------------------------------------
(* Values.                                                                 *)

Nil == "<nil>"
Sessions == {"s1", "s2"}
Roots == {"r1", "r2"}

NoBytes == <<>>                  \* ""
UserBytes == <<117>>             \* "u"
PasswordBytes == <<112, 119>>    \* "pw"
KeyBytes == <<107, 101, 121>>    \* "key"

OrganizationName == "org"
BaseURL == "https://vsd:8443/api"

\* Identifiables: a Rootable (ref names the root object that holds the API
\* key) or a plain resource, with Identity{Name, Category} and Identifier.
RootObject(r, id) ==
    [rootable |-> TRUE, ref |-> r, name |-> "me", category |-> "me", id |-> id]
PlainObject(id) ==
    [rootable |-> FALSE, ref |-> Nil, name |-> "enterprise",
     category |-> "enterprises", id |-> id]
NilObject ==
    [rootable |-> FALSE, ref |-> Nil, name |-> "", category |-> "", id |-> ""]

Objects ==
    {RootObject(r, id) : r \in Roots, id \in {"", "rid"}}
        \cup {PlainObject(id) : id \in {"", "e1"}}

\* The parents of the operations on children.
Parents == {RootObject("r1", "rid"), PlainObject(""), PlainObject("e1")}

ChildCategory == "domains"
ChildIDs == {"", "c1"}

\* *FetchingInfo: nil, or Filter, OrderBy, Page, PageSize, GroupBy.
NilInfo ==
    [nil |-> TRUE, Filter |-> "", OrderBy |-> "", Page |-> 0, PageSize |-> 0,
     GroupBy |-> <<>>, FilterType |-> "", TotalCount |-> 0]
PlainInfo(p) ==
    [nil |-> FALSE, Filter |-> "", OrderBy |-> "", Page |-> p, PageSize |-> 0,
     GroupBy |-> <<>>, FilterType |-> "", TotalCount |-> 0]
FullInfo(p) ==
    [nil |-> FALSE, Filter |-> "name == 'x'", OrderBy |-> "name ASC", Page |-> p,
     PageSize |-> 25, GroupBy |-> <<"a", "b">>, FilterType |-> "", TotalCount |-> 0]
Pages == {-2, -1, 0, 7, MaxPage}
Infos ==
    {NilInfo} \cup {PlainInfo(p) : p \in Pages} \cup {FullInfo(p) : p \in {-1, MaxPage}}

----------------------------------------------------------------------------
(* Results.                                                                *)

NewBambouError(title, description) ==
    [kind |-> "error", title |-> title, description |-> description]
NoError == [kind |-> "ok", title |-> "", description |-> ""]
Panic(what) == [kind |-> "panic", title |-> "", description |-> what]
NilDereference == Panic("invalid memory address or nil pointer dereference")

----------------------------------------------------------------------------
(* encoding/base64 StdEncoding, strconv.Itoa and Atoi, strings.Join.       *)

\* The character of a 6-bit value in the standard alphabet, as its code.
Base64Char(v) ==
    IF v < 26 THEN 65 + v
    ELSE IF v < 52 THEN 97 + (v - 26)
    ELSE IF v < 62 THEN 48 + (v - 52)
    ELSE IF v = 62 THEN 43 ELSE 47

Base64Pad == 61

RECURSIVE EncodeToString(_)
EncodeToString(b) ==
    IF Len(b) = 0 THEN <<>>
    ELSE IF Len(b) = 1 THEN
        <<Base64Char(b[1] \div 4), Base64Char((b[1] % 4) * 16), Base64Pad, Base64Pad>>
    ELSE IF Len(b) = 2 THEN
        <<Base64Char(b[1] \div 4), Base64Char((b[1] % 4) * 16 + b[2] \div 16),
          Base64Char((b[2] % 16) * 4), Base64Pad>>
    ELSE
        <<Base64Char(b[1] \div 4), Base64Char((b[1] % 4) * 16 + b[2] \div 16),
          Base64Char((b[2] % 16) * 4 + b[3] \div 64), Base64Char(b[3] % 64)>>
            \o EncodeToString(SubSeq(b, 4, Len(b)))

DigitChar(d) ==
    CASE d = 0 -> "0" [] d = 1 -> "1" [] d = 2 -> "2" [] d = 3 -> "3" [] d = 4 -> "4"
      [] d = 5 -> "5" [] d = 6 -> "6" [] d = 7 -> "7" [] d = 8 -> "8" [] d = 9 -> "9"

RECURSIVE Itoa(_)
Itoa(n) ==
    IF n < 0 THEN <<"-">> \o Itoa(-n)
    ELSE IF n < 10 THEN <<DigitChar(n)>>
    ELSE Itoa(n \div 10) \o <<DigitChar(n % 10)>>

Digits == {"0", "1", "2", "3", "4", "5", "6", "7", "8", "9"}
DigitValue(c) == CHOOSE d \in 0 .. 9 : DigitChar(d) = c

RECURSIVE ParseDigits(_, _)
ParseDigits(t, acc) ==
    IF t = <<>> THEN acc ELSE ParseDigits(Tail(t), acc * 10 + DigitValue(Head(t)))

\* strconv.Atoi with its error dropped (`x, _ = strconv.Atoi(..)`): the value,
\* or 0 when the text is no decimal number.
Atoi(t) ==
    LET signed == t # <<>> /\ Head(t) \in {"-", "+"}
        body == IF signed THEN Tail(t) ELSE t
    IN  IF body = <<>> \/ \E i \in 1 .. Len(body) : body[i] \notin Digits THEN 0
        ELSE IF signed /\ Head(t) = "-" THEN -ParseDigits(body, 0)
        ELSE ParseDigits(body, 0)

RECURSIVE Join(_, _)
Join(elems, sep) ==
    IF elems = <<>> THEN ""
    ELSE IF Len(elems) = 1 THEN elems[1]
    ELSE elems[1] \o sep \o Join(Tail(elems), sep)

----------------------------------------------------------------------------
(* Request headers.                                                        *)

NoHeaders == <<>>
Set(hdr, name, value) == (name :> value) @@ hdr
Has(hdr, name) == name \in DOMAIN hdr

XRESTPrefix == <<88, 82, 69, 83, 84, 32>>    \* "XREST "
Colon == <<58>>                              \* ":"

\* The value of the header for a secret.
authorizationValue(username, secret) ==
    XRESTPrefix \o EncodeToString(username \o Colon \o secret)

\* The last steps of makeAuthorizationHeaders, key being s.root.APIKey().
authorizationWithKey(s, key) ==
    IF session[s].Password = NoBytes /\ key = NoBytes THEN
        [value |-> <<>>,
         err |-> NewBambouError("Invalid Credentials",
                                "No password or authentication token given")]
    ELSE IF key = NoBytes THEN
        [value |-> authorizationValue(session[s].Username, session[s].Password),
         err |-> NoError]
    ELSE [value |-> authorizationValue(session[s].Username, key), err |-> NoError]

\* makeAuthorizationHeaders: the header value, or the error.
makeAuthorizationHeaders(s) ==
    IF session[s].Username = NoBytes THEN
        [value |-> <<>>, err |-> NewBambouError("Invalid Credentials", "No username given")]
    ELSE IF session[s].root = Nil THEN
        [value |-> <<>>, err |-> NewBambouError("Invalid Credentials", "No root user set")]
    ELSE authorizationWithKey(s, apiKey[session[s].root])

\* The headers of a FetchingInfo, set over hdr one after the other.
setFilter(hdr, info) ==
    IF info.Filter # "" THEN Set(hdr, "X-Nuage-Filter", info.Filter) ELSE hdr
setOrderBy(hdr, info) ==
    IF info.OrderBy # "" THEN Set(hdr, "X-Nuage-OrderBy", info.OrderBy) ELSE hdr
setPage(hdr, info) ==
    IF info.Page # -1 THEN Set(hdr, "X-Nuage-Page", Itoa(info.Page)) ELSE hdr
setPageSize(hdr, info) ==
    IF info.PageSize > 0 THEN Set(hdr, "X-Nuage-PageSize", Itoa(info.PageSize)) ELSE hdr
setGroupBy(hdr, info) ==
    IF Len(info.GroupBy) > 0
    THEN Set(Set(hdr, "X-Nuage-GroupBy", "true"),
             "X-Nuage-Attributes", Join(info.GroupBy, ", "))
    ELSE hdr

infoHeaders(hdr, info) ==
    IF info.nil THEN hdr
    ELSE setGroupBy(setPageSize(setPage(setOrderBy(setFilter(hdr, info), info), info),
                                info), info)

\* The common headers and those of info, set over hdr.
commonHeaders(hdr, info) ==
    infoHeaders(Set(Set(hdr, "X-Nuage-PageSize", <<"5", "0">>),
                    "Content-Type", "application/json"), info)

\* The password branch of prepareHeaders, auth being the outcome of
\* makeAuthorizationHeaders.
passwordHeaders(hdr, info, auth) ==
    IF auth.err.kind # "ok" THEN [hdr |-> hdr, err |-> auth.err]
    ELSE [hdr |-> commonHeaders(
                      Set(Set(hdr, "Authorization", auth.value),
                          "X-Nuage-Organization", OrganizationName), info),
          err |-> NoError]

\* prepareHeaders: the headers of the request after the call, and its error.
prepareHeaders(s, hdr, info) ==
    IF session[s].Certificate THEN [hdr |-> commonHeaders(hdr, info), err |-> NoError]
    ELSE passwordHeaders(hdr, info, makeAuthorizationHeaders(s))

----------------------------------------------------------------------------
(* URL resolution.                                                         *)

getGeneralURL(o) == BaseURL \o "/" \o o.category

\* getPersonalURL without its test for a Rootable: a root is addressed like any
\* other resource.
getPersonalURLOfAnyResource(o) ==
    IF o.id = "" THEN
        [url |-> "",
         err |-> NewBambouError("VSD error",
                                "Cannot GetPersonalURL of an object with no ID set")]
    ELSE [url |-> getGeneralURL(o) \o "/" \o o.id, err |-> NoError]

\* getPersonalURL: the URL, or the error.
getPersonalURL(o) ==
    IF o.rootable THEN [url |-> BaseURL \o "/" \o o.name, err |-> NoError]
    ELSE IF o.id = "" THEN
        [url |-> "",
         err |-> NewBambouError("VSD error",
                                "Cannot GetPersonalURL of an object with no ID set")]
    ELSE [url |-> getGeneralURL(o) \o "/" \o o.id, err |-> NoError]

\* getURLForChildrenIdentity from the return of getPersonalURL on.
childrenURLUnder(personal, category) ==
    IF personal.err.kind # "ok" THEN [url |-> "", err |-> personal.err]
    ELSE [url |-> personal.url \o "/" \o category, err |-> NoError]

getURLForChildrenIdentity(o, category) ==
    IF o.rootable THEN [url |-> BaseURL \o "/" \o category, err |-> NoError]
    ELSE childrenURLUnder(getPersonalURL(o), category)

----------------------------------------------------------------------------
(* Bodies.  A request body is the sequence of the JSON tokens written to   *)
(* its buffer; a response body is what the server wrote, by its shape.     *)

\* json.NewEncoder(buffer).Encode(object)
EncodeObject(o) == <<"{", "\"ID\":", "\"" \o o.id \o "\"", "}", "\n">>

RECURSIVE EncodeElements(_)
EncodeElements(ids) ==
    IF ids = <<>> THEN <<>>
    ELSE IF Len(ids) = 1 THEN <<"\"" \o ids[1] \o "\"">>
    ELSE <<"\"" \o ids[1] \o "\"", ",">> \o EncodeElements(Tail(ids))

\* json.NewEncoder(buffer).Encode(ids): a nil slice is written as null.
EncodeIDs(ids) ==
    IF ids = <<>> THEN <<"null", "\n">>
    ELSE <<"[">> \o EncodeElements(ids) \o <<"]", "\n">>

EmptyBody == [shape |-> "empty"]                   \* no byte at all
GarbageBody == [shape |-> "garbage"]               \* not JSON
ListBody(key) == [shape |-> "list", key |-> key]   \* [{..}], key: the APIKey member
ErrorsBody(groups) == [shape |-> "errors", errors |-> groups]  \* {"errors": [..]}
EventsBody(n) == [shape |-> "events", events |-> n]            \* {"events": [..]}

NoKey == <<0>>     \* the object of a ListBody has no APIKey member

Description(t, d) == [title |-> t, description |-> d]

\* json.Unmarshal(body, &vsdresp): the decoded VsdErrors, or the error.  An
\* object without an "errors" member decodes to an empty list.
UnmarshalErrorList(body) ==
    IF body.shape = "errors" THEN [ok |-> TRUE, errors |-> body.errors]
    ELSE IF body.shape = "events" THEN [ok |-> TRUE, errors |-> <<>>]
    ELSE [ok |-> FALSE, errors |-> <<>>]

\* json.Unmarshal(body, &IdentifiablesList{object}): whether it decodes.
UnmarshalList(body) == body.shape = "list"

\* json.NewDecoder(body).Decode(notification): the number of events, or the error.
DecodeNotification(body) ==
    IF body.shape = "events" THEN [ok |-> TRUE, events |-> body.events]
    ELSE IF body.shape = "errors" THEN [ok |-> TRUE, events |-> 0]
    ELSE [ok |-> FALSE, events |-> 0]

----------------------------------------------------------------------------
(* The answers of the server.                                              *)

NoResponseHeaders == <<>>
PageHeaders ==
    [Filter |-> "f", FilterType |-> "predicate", OrderBy |-> "name ASC",
     Page |-> <<"3">>, PageSize |-> <<"2", "5">>, Count |-> <<"x">>]

Response(status, text, body, hdr) ==
    [failed |-> FALSE, status |-> status, text |-> text, body |-> body, hdr |-> hdr]
TransportError ==
    [failed |-> TRUE, status |-> 0, text |-> "dial tcp: connection refused",
     body |-> EmptyBody, hdr |-> NoResponseHeaders]

NoResponse == Response(0, "", EmptyBody, NoResponseHeaders)

MultipleChoices == Response(300, "300 Multiple Choices", EmptyBody, NoResponseHeaders)

ErrorBodies ==
    { GarbageBody,
      ErrorsBody(<<>>),
      ErrorsBody(<< <<>> >>),
      ErrorsBody(<< <<Description("T", "D")>> >>),
      ErrorsBody(<< <<Description("T", "D"), Description("T2", "D2")>>,
                    <<Description("T3", "D3")>> >>) }

FinalResponses ==
    { TransportError,
      Response(200, "200 OK", ListBody(KeyBytes), PageHeaders),
      Response(200, "200 OK", ListBody(NoKey), NoResponseHeaders),
      Response(200, "200 OK", GarbageBody, NoResponseHeaders),
      Response(200, "200 OK", EventsBody(1), NoResponseHeaders),
      Response(201, "201 Created", ListBody(NoKey), NoResponseHeaders),
      Response(204, "204 No Content", EmptyBody, NoResponseHeaders),
      Response(401, "401 Unauthorized", EmptyBody, NoResponseHeaders),
      Response(409, "409 Conflict", ErrorsBody(<< <<Description("T", "D")>> >>),
               NoResponseHeaders),
      Response(409, "409 Conflict", EventsBody(0), NoResponseHeaders) }
        \cup {Response(404, "404 Not Found", b, NoResponseHeaders) : b \in ErrorBodies}

\* What the server answers to the successive requests of one operation: some
\* 300s, then another answer.
RECURSIVE Redirects(_)
Redirects(n) == IF n = 0 THEN <<>> ELSE <<MultipleChoices>> \o Redirects(n - 1)

Answers == {Redirects(n) \o <<r>> : n \in 0 .. MaxRedirects, r \in FinalResponses}

----------------------------------------------------------------------------
(* send.                                                                   *)

Get(hdr, name) == IF name \in DOMAIN hdr THEN hdr[name] ELSE ""
GetNumber(hdr, name) == IF name \in DOMAIN hdr THEN hdr[name] ELSE <<>>

\* readHeaders: info after the call.
readHeaders(hdr, info) ==
    IF info.nil THEN info
    ELSE [info EXCEPT !.Filter = Get(hdr, "Filter"),
                      !.FilterType = Get(hdr, "FilterType"),
                      !.OrderBy = Get(hdr, "OrderBy"),
                      !.Page = Atoi(GetNumber(hdr, "Page")),
                      !.PageSize = Atoi(GetNumber(hdr, "PageSize")),
                      !.TotalCount = Atoi(GetNumber(hdr, "Count"))]

\* s.client.Do(request) reads the request's body to its end to transmit it:
\* what is left in the buffer afterwards.
AfterDo(buffer) == <<>>

\* The request as the server receives it.
Request(method, url, body, hdr) ==
    [method |-> method, url |-> url, body |-> body, hdr |-> hdr]

\* The 404 and 409 case of send, decoded being the outcome of json.Unmarshal.
errorListResult(decoded) ==
    IF ~decoded.ok THEN NewBambouError("", "json: cannot decode the body")
    ELSE IF Len(decoded.errors) = 0 \/ Len(decoded.errors[1]) = 0
        THEN Panic("index out of range")
    ELSE NewBambouError(decoded.errors[1][1].title, decoded.errors[1][1].description)

\* What send returns: the requests transmitted, the error, the response and
\* info after the call.
Sent(requests, err, response, info) ==
    [requests |-> requests, err |-> err, response |-> response, info |-> info]

\* The outcome of a send whose request was transmitted before those of again.
After(request, again) == [again EXCEPT !.requests = <<request>> \o again.requests]

\* send(request, info), the request being method, url and the buffer of its
\* body, and answers the answers of the server from this request on.  The
\* error of prepareHeaders is dropped.
RECURSIVE send(_, _, _, _, _, _)
\* The switch of send on the response to request.
dispatch(s, request, response, buffer, info, answers) ==
    IF response.failed THEN
        Sent(<<request>>, NewBambouError("", response.text), response, info)
    ELSE IF response.status \in {200, 201, 204} THEN
        Sent(<<request>>, NoError, response, readHeaders(response.hdr, info))
    ELSE IF response.status = 300 THEN
        After(request, send(s, request.method, request.url \o "?responseChoice=1",
                            AfterDo(buffer), info, Tail(answers)))
    ELSE IF response.status \in {409, 404} THEN
        Sent(<<request>>, errorListResult(UnmarshalErrorList(response.body)),
             response, info)
    ELSE Sent(<<request>>, NewBambouError("", response.text), response, info)

send(s, method, url, buffer, info, answers) ==
    dispatch(s, Request(method, url, buffer, prepareHeaders(s, NoHeaders, info).hdr),
             Head(answers), buffer, info, answers)

----------------------------------------------------------------------------
(* The record of a call.                                                   *)

\* op and s: the method called and its receiver; object, category, children,
\* info, lastEventID: its arguments; keyAtCall: the API keys when it was
\* called; requests: the requests it transmitted, in order; response: the last
\* answer it received; result: the error it returned (or the panic that ended
\* it); infoOut: info after the call; delivered: whether a notification was put
\* on the channel.
Call(op, s, object, category, children, info, lastEventID) ==
    [op |-> op, s |-> s, object |-> object, category |-> category,
     children |-> children, info |-> info, lastEventID |-> lastEventID,
     keyAtCall |-> apiKey, requests |-> <<>>, response |-> NoResponse,
     result |-> NoError, infoOut |-> info, delivered |-> FALSE]

ObjectCall(op, s, object) == Call(op, s, object, "", <<>>, NilInfo, "")

NoFrame ==
    [op |-> "none", s |-> Nil, object |-> NilObject, category |-> "",
     children |-> <<>>, info |-> NilInfo, lastEventID |-> "",
     keyAtCall |-> [r \in Roots |-> NoBytes], requests |-> <<>>,
     response |-> NoResponse, result |-> NoError, infoOut |-> NilInfo,
     delivered |-> FALSE]

Idle == frame.op = "none"

\* What a call has done when it ends after send has returned sent: the
\* error returned, the API keys, info and whether a notification was delivered.
Outcome(sent, result, keys, info, delivered) ==
    [requests |-> sent.requests, response |-> sent.response, result |-> result,
     apiKey |-> keys, info |-> info, delivered |-> delivered]

\* A call that ends with err before it has sent anything.
FailedWith(err, info) ==
    [requests |-> <<>>, response |-> NoResponse, result |-> err, apiKey |-> apiKey,
     info |-> info, delivered |-> FALSE]
Failed(err) == FailedWith(err, NilInfo)

\* The call ends with outcome out.
Finish(call, out) ==
    /\ apiKey' = out.apiKey
    /\ frame' = [call EXCEPT !.requests = out.requests, !.response = out.response,
                             !.result = out.result, !.infoOut = out.info,
                             !.delivered = out.delivered]

DecodeError == NewBambouError("", "json: cannot decode the body")

\* The API keys after json.Unmarshal has decoded body into the list that holds
\* object.
DecodedKeys(object, body) ==
    IF object.rootable /\ body.key # NoKey
    THEN [apiKey EXCEPT ![object.ref] = body.key]
    ELSE apiKey

----------------------------------------------------------------------------
(* Construction.                                                           *)

NewSession(username, password, root) ==
    [Certificate |-> FALSE, Username |-> username, Password |-> password,
     root |-> root]
NewX509Session(root) ==
    [Certificate |-> TRUE, Username |-> NoBytes, Password |-> NoBytes, root |-> root]

\* The sessions the constructors build with a root among roots, or none.
Constructions(roots) ==
    {NewSession(u, p, r) : u \in {NoBytes, UserBytes},
                           p \in {NoBytes, PasswordBytes}, r \in roots \cup {Nil}}
        \cup {NewX509Session(r) : r \in roots \cup {Nil}}

Fresh ==
    /\ currentSession = Nil
    /\ apiKey = [r \in Roots |-> NoBytes]
    /\ frame = NoFrame

\* s1 is built in any way; s2 with a user, a password and a root.
Init ==
    /\ Fresh
    /\ session \in [Sessions -> Constructions(Roots)]
    /\ session["s1"].root # "r2"
    /\ session["s2"] \in {NewSession(UserBytes, PasswordBytes, r) : r \in Roots}

\* Both sessions are built in any way.
InitLifecycle ==
    /\ Fresh
    /\ session \in [Sessions -> Constructions(Roots)]

----------------------------------------------------------------------------
(* The operations on entities.                                             *)

\* FetchEntity from the return of send on.
fetched(object, sent) ==
    IF sent.err.kind # "ok" THEN Outcome(sent, sent.err, apiKey, NilInfo, FALSE)
    ELSE IF ~UnmarshalList(sent.response.body)
        THEN Outcome(sent, DecodeError, apiKey, NilInfo, FALSE)
    ELSE Outcome(sent, NoError, DecodedKeys(object, sent.response.body),
                 NilInfo, FALSE)

\* FetchEntity from the return of getPersonalURL on.
fetchAt(s, object, personal, answers) ==
    IF personal.err.kind # "ok" THEN Failed(personal.err)
    ELSE fetched(object, send(s, "GET", personal.url, <<>>, NilInfo, answers))

fetchEntity(s, object, answers) ==
    fetchAt(s, object, getPersonalURL(object), answers)

FetchEntity(s, object) ==
    /\ Idle
    /\ \E answers \in Answers :
           Finish(ObjectCall("FetchEntity", s, object), fetchEntity(s, object, answers))
    /\ UNCHANGED <<currentSession, session>>

\* SaveEntity from the return of send on.
saved(object, sent) ==
    IF sent.err.kind # "ok" THEN Outcome(sent, sent.err, apiKey, NilInfo, FALSE)
    ELSE IF ~UnmarshalList(sent.response.body)
        THEN Outcome(sent, DecodeError, apiKey, NilInfo, FALSE)
    ELSE Outcome(sent, NoError, DecodedKeys(object, sent.response.body),
                 NilInfo, FALSE)

\* SaveEntity from the return of getPersonalURL on.
saveAt(s, object, personal, answers) ==
    IF personal.err.kind # "ok" THEN Failed(personal.err)
    ELSE saved(object,
               send(s, "PUT", personal.url, EncodeObject(object), NilInfo, answers))

saveEntity(s, object, answers) == saveAt(s, object, getPersonalURL(object), answers)

SaveEntity(s, object) ==
    /\ Idle
    /\ \E answers \in Answers :
           Finish(ObjectCall("SaveEntity", s, object), saveEntity(s, object, answers))
    /\ UNCHANGED <<currentSession, session>>

\* DeleteEntity from the return of send on.
deleted(sent) == Outcome(sent, sent.err, apiKey, NilInfo, FALSE)

\* DeleteEntity from the return of getPersonalURL on.
deleteAt(s, personal, answers) ==
    IF personal.err.kind # "ok" THEN Failed(personal.err)
    ELSE deleted(send(s, "DELETE", personal.url, <<>>, NilInfo, answers))

deleteEntity(s, object, answers) == deleteAt(s, getPersonalURL(object), answers)

DeleteEntity(s, object) ==
    /\ Idle
    /\ \E answers \in Answers :
           Finish(ObjectCall("DeleteEntity", s, object),
                  deleteEntity(s, object, answers))
    /\ UNCHANGED <<currentSession, session>>

----------------------------------------------------------------------------
(* The operations on children.                                             *)

\* FetchChildren from the return of send on.
fetchedChildren(sent) ==
    IF sent.err.kind # "ok"
        THEN Outcome(sent, sent.err, apiKey, sent.info, FALSE)
    ELSE IF sent.response.status = 204 \/ sent.response.body.shape = "empty"
        THEN Outcome(sent, NoError, apiKey, sent.info, FALSE)
    ELSE IF ~UnmarshalList(sent.response.body)
        THEN Outcome(sent, DecodeError, apiKey, sent.info, FALSE)
    ELSE Outcome(sent, NoError, apiKey, sent.info, FALSE)

\* FetchChildren from the return of getURLForChildrenIdentity on.
fetchChildrenAt(s, children, info, answers) ==
    IF children.err.kind # "ok" THEN FailedWith(children.err, info)
    ELSE fetchedChildren(send(s, "GET", children.url, <<>>, info, answers))

fetchChildren(s, parent, category, info, answers) ==
    fetchChildrenAt(s, getURLForChildrenIdentity(parent, category), info, answers)

FetchChildren(s, parent, info) ==
    /\ Idle
    /\ \E answers \in Answers :
           Finish(Call("FetchChildren", s, parent, ChildCategory, <<>>, info, ""),
                  fetchChildren(s, parent, ChildCategory, info, answers))
    /\ UNCHANGED <<currentSession, session>>

\* CreateChild from the return of send on.
created(child, sent) ==
    IF sent.err.kind # "ok" THEN Outcome(sent, sent.err, apiKey, NilInfo, FALSE)
    ELSE IF ~UnmarshalList(sent.response.body)
        THEN Outcome(sent, DecodeError, apiKey, NilInfo, FALSE)
    ELSE Outcome(sent, NoError, DecodedKeys(child, sent.response.body),
                 NilInfo, FALSE)

\* CreateChild from the return of getURLForChildrenIdentity on.
createChildAt(s, children, child, answers) ==
    IF children.err.kind # "ok" THEN Failed(children.err)
    ELSE created(child,
                 send(s, "POST", children.url, EncodeObject(child), NilInfo, answers))

createChild(s, parent, child, answers) ==
    createChildAt(s, getURLForChildrenIdentity(parent, child.category), child, answers)

CreateChild(s, parent, child) ==
    /\ Idle
    /\ \E answers \in Answers :
           Finish(Call("CreateChild", s, parent, child.category, <<child.id>>,
                       NilInfo, ""),
                  createChild(s, parent, child, answers))
    /\ UNCHANGED <<currentSession, session>>

\* The loop of AssignChildren were it to skip a child without identifier
\* instead of returning.
RECURSIVE collectIDsSkipping(_, _)
collectIDsSkipping(children, ids) ==
    IF children = <<>> THEN [ids |-> ids, err |-> NoError]
    ELSE IF Head(children) # ""
        THEN collectIDsSkipping(Tail(children), Append(ids, Head(children)))
    ELSE collectIDsSkipping(Tail(children), ids)

\* The loop of AssignChildren over the identifiers of the children, ids being
\* those collected so far: all of them, or the error at the first empty one.
RECURSIVE collectIDs(_, _)
collectIDs(children, ids) ==
    IF children = <<>> THEN [ids |-> ids, err |-> NoError]
    ELSE IF Head(children) # "" THEN collectIDs(Tail(children), Append(ids, Head(children)))
    ELSE [ids |-> ids,
          err |-> NewBambouError("VSD Error", "One of the object to assign has no ID")]

\* AssignChildren from the return of send on.
assigned(sent) == Outcome(sent, sent.err, apiKey, NilInfo, FALSE)

\* AssignChildren from the end of its loop on.
assignCollected(s, url, collected, answers) ==
    IF collected.err.kind # "ok" THEN Failed(collected.err)
    ELSE assigned(send(s, "PUT", url, EncodeIDs(collected.ids), NilInfo, answers))

\* AssignChildren from the return of getURLForChildrenIdentity on.
assignChildrenAt(s, url, children, answers) ==
    IF url.err.kind # "ok" THEN Failed(url.err)
    ELSE assignCollected(s, url.url, collectIDs(children, <<>>), answers)

assignChildren(s, parent, children, category, answers) ==
    assignChildrenAt(s, getURLForChildrenIdentity(parent, category), children, answers)

\* The lists of at most n elements of S.
SeqsUpTo(S, n) == UNION {[1 .. k -> S] : k \in 0 .. n}

AssignChildren(s, parent, children) ==
    /\ Idle
    /\ \E answers \in Answers :
           Finish(Call("AssignChildren", s, parent, ChildCategory, children,
                       NilInfo, ""),
                  assignChildren(s, parent, children, ChildCategory, answers))
    /\ UNCHANGED <<currentSession, session>>

----------------------------------------------------------------------------
(* Start and Reset.                                                        *)

\* Start from s.FetchEntity(s.root) on, id being the identifier of the root.
startFetch(s, id, answers) ==
    Finish(ObjectCall("Start", s, RootObject(session[s].root, id)),
           fetchEntity(s, RootObject(session[s].root, id), answers))

Start(s) ==
    /\ Idle
    /\ currentSession' = s
    /\ IF session[s].root = Nil THEN
           \* s.FetchEntity(nil): getPersonalURL calls a method of a nil interface
           Finish(ObjectCall("Start", s, NilObject), Failed(NilDereference))
       ELSE
           \E id \in {"", "rid"}, answers \in Answers : startFetch(s, id, answers)
    /\ UNCHANGED session

\* Reset were it to unregister the current session only when it is s.
ResetIfCurrent(s) ==
    /\ Idle
    /\ IF session[s].root = Nil THEN
           /\ Finish(ObjectCall("Reset", s, NilObject), Failed(NilDereference))
           /\ UNCHANGED currentSession
       ELSE
           /\ apiKey' = [apiKey EXCEPT ![session[s].root] = NoBytes]
           /\ currentSession' = IF currentSession = s THEN Nil ELSE currentSession
           /\ frame' = ObjectCall("Reset", s, NilObject)
    /\ UNCHANGED session

Reset(s) ==
    /\ Idle
    /\ IF session[s].root = Nil THEN
           \* s.root.SetAPIKey(""): a method of a nil interface
           /\ Finish(ObjectCall("Reset", s, NilObject), Failed(NilDereference))
           /\ UNCHANGED currentSession
       ELSE
           /\ apiKey' = [apiKey EXCEPT ![session[s].root] = NoBytes]
           /\ currentSession' = Nil
           /\ frame' = ObjectCall("Reset", s, NilObject)
    /\ UNCHANGED session

\* The caller takes the result of the call.
Return ==
    /\ ~Idle
    /\ frame.result.kind # "panic"
    /\ frame' = NoFrame
    /\ UNCHANGED <<currentSession, session, apiKey>>

NextLifecycle ==
    \/ \E s \in Sessions : Start(s)
    \/ \E s \in Sessions : Reset(s)
    \/ Return

SpecLifecycle == InitLifecycle /\ [][NextLifecycle]_vars

----------------------------------------------------------------------------
(* Events.                                                                 *)

\* NextEvent from the return of Decode on.
notified(sent, notification) ==
    IF ~notification.ok THEN Outcome(sent, DecodeError, apiKey, NilInfo, FALSE)
    ELSE Outcome(sent, NoError, apiKey, NilInfo, notification.events > 0)

\* NextEvent from the return of send on.
polled(sent) ==
    IF sent.err.kind # "ok" THEN Outcome(sent, sent.err, apiKey, NilInfo, FALSE)
    ELSE notified(sent, DecodeNotification(sent.response.body))

eventsURL(lastEventID) ==
    IF lastEventID # "" THEN BaseURL \o "/events" \o "?uuid=" \o lastEventID
    ELSE BaseURL \o "/events"

nextEvent(s, lastEventID, answers) ==
    polled(send(s, "GET", eventsURL(lastEventID), <<>>, NilInfo, answers))

NextEvent(s, lastEventID) ==
    /\ Idle
    /\ \E answers \in Answers :
           Finish(Call("NextEvent", s, NilObject, "", <<>>, NilInfo, lastEventID),
                  nextEvent(s, lastEventID, answers))
    /\ UNCHANGED <<currentSession, session>>

----------------------------------------------------------------------------

Next ==
    \/ \E s \in Sessions : Start(s)
    \/ \E s \in Sessions : Reset(s)
    \/ \E s \in Sessions, o \in Objects : FetchEntity(s, o)
    \/ \E s \in Sessions, o \in Objects : SaveEntity(s, o)
    \/ \E s \in Sessions, o \in Objects : DeleteEntity(s, o)
    \/ \E s \in Sessions, o \in Parents, info \in Infos : FetchChildren(s, o, info)
    \/ \E s \in Sessions, o \in Parents, id \in {"", "e1"} :
           CreateChild(s, o, PlainObject(id))
    \/ \E s \in Sessions, o \in Parents, c \in SeqsUpTo(ChildIDs, MaxChildren) :
           AssignChildren(s, o, c)
    \/ \E s \in Sessions, id \in {"", "ev1"} : NextEvent(s, id)
    \/ Return

Spec == Init /\ [][Next]_vars

\* The operations on entities alone.
NextEntity ==
    \/ \E s \in Sessions, o \in Objects : FetchEntity(s, o)
    \/ \E s \in Sessions, o \in Objects : SaveEntity(s, o)
    \/ \E s \in Sessions, o \in Objects : DeleteEntity(s, o)
    \/ Return

SpecEntity == Init /\ [][NextEntity]_vars

\* The operations on children alone.
NextChildren ==
    \/ \E s \in Sessions, o \in Parents, info \in Infos : FetchChildren(s, o, info)
    \/ \E s \in Sessions, o \in Parents, id \in {"", "e1"} :
           CreateChild(s, o, PlainObject(id))
    \/ \E s \in Sessions, o \in Parents, c \in SeqsUpTo(ChildIDs, MaxChildren) :
           AssignChildren(s, o, c)
    \/ Return

SpecChildren == Init /\ [][NextChildren]_vars

----------------------------------------------------------------------------
(* Properties.                                                             *)

EntityOps == {"FetchEntity", "SaveEntity", "DeleteEntity"}
ChildrenOps == {"FetchChildren", "CreateChild", "AssignChildren"}
BodyOps == {"SaveEntity", "CreateChild", "AssignChildren"}
StorerOps == EntityOps \cup ChildrenOps \cup {"NextEvent"}

\* The call in frame went as far as send.
Dispatched == frame.requests # <<>>

\* Every request after the first went to the URL of the one before it, plus
\* the response choice.
Resubmitted ==
    \A i \in 2 .. Len(frame.requests) :
        frame.requests[i].url = frame.requests[i - 1].url \o "?responseChoice=1"

\* C1: an operation answered with 300 reissues its request once, to
\* <original-url>?responseChoice=1, and returns whatever the answer to the
\* reissued request is: no operation transmits more than two requests.
C1_OneResubmission ==
    frame.op \in StorerOps =>
        /\ Len(frame.requests) <= 2
        /\ Resubmitted

\* The session of the call is in password mode and, when it was called, had
\* no username, no root, or neither a password nor an API key.
BadCredentials ==
    /\ ~session[frame.s].Certificate
    /\ \/ session[frame.s].Username = NoBytes
       \/ session[frame.s].root = Nil
       \/ /\ session[frame.s].Password = NoBytes
          /\ frame.keyAtCall[session[frame.s].root] = NoBytes

\* The call in frame has a URL to send its request to and, for
\* AssignChildren, identified children only.
Addressable ==
    CASE frame.op \in EntityOps -> frame.object.rootable \/ frame.object.id # ""
      [] frame.op \in ChildrenOps ->
            /\ frame.object.rootable \/ frame.object.id # ""
            /\ \A i \in 1 .. Len(frame.children) :
                   frame.op = "AssignChildren" => frame.children[i] # ""
      [] OTHER -> TRUE

\* C2: in password mode, an operation of a session without a username,
\* without a root, or with neither password nor API key returns the error
\* 'Invalid Credentials', never a success.
C2_InvalidCredentialsFail ==
    frame.op \in StorerOps /\ BadCredentials =>
        /\ frame.result.kind # "ok"
        /\ Addressable =>
               frame.result.kind = "error" /\ frame.result.title = "Invalid Credentials"

\* Session s is reset: no current session, no API key in its root.
Cleared(s) == currentSession = Nil /\ apiKey[session[s].root] = NoBytes

\* The step is a Reset of s that returns.
ResetReturns(s) ==
    /\ frame.op = "none"
    /\ frame'.op = "Reset" /\ frame'.s = s /\ frame'.result.kind = "ok"

C3Step ==
    \A s \in Sessions :
        /\ ResetReturns(s) => Cleared(s)'
        /\ session[s].root # Nil /\ Cleared(s) /\ frame'.op # "Start" => Cleared(s)'

\* C3: when Reset of a session has returned, there is no current session and
\* the root of that session has an empty API key, and both stay so until the
\* next Start, whatever Start and Reset calls came before.
C3_ResetClears == [][C3Step]_vars

\* Reset has cleared an API key that a Start had populated.
C3_Witness ==
    /\ frame.op = "Reset"
    /\ frame.result.kind = "ok"
    /\ frame.keyAtCall[session[frame.s].root] = KeyBytes
    /\ Cleared(frame.s)

\* The last answer to the call in frame was a 404 or a 409.
AnsweredNotFoundOrConflict ==
    /\ Dispatched
    /\ ~frame.response.failed
    /\ frame.response.status \in {404, 409}

\* C4: a 404 or 409 answer, whatever its body, makes the operation return an
\* Error: that of the first description of the first error group when the body
\* is an error list, a decode error when the body does not decode; it never
\* ends otherwise.
C4_ErrorListSurfaced ==
    AnsweredNotFoundOrConflict =>
        /\ frame.result.kind = "error"
        /\ frame.response.body.shape = "errors"
             /\ Len(frame.response.body.errors) > 0
             /\ Len(frame.response.body.errors[1]) > 0
             => /\ frame.result.title = frame.response.body.errors[1][1].title
                /\ frame.result.description
                       = frame.response.body.errors[1][1].description
        /\ frame.response.body.shape \in {"garbage", "empty", "list"}
             => frame.result = DecodeError

\* One of the children of the AssignChildren in frame has no identifier.
UnidentifiedChild == \E i \in 1 .. Len(frame.children) : frame.children[i] = ""

\* C5: AssignChildren with a child without identifier, wherever it is in the
\* list, returns an error and transmits no request.
C5_AssignValidatesFirst ==
    frame.op = "AssignChildren" /\ UnidentifiedChild =>
        frame.result.kind = "error" /\ frame.requests = <<>>

\* The second of two children has no identifier, under an addressable parent.
C5_Witness ==
    /\ frame.op = "AssignChildren"
    /\ frame.children = <<"c1", "">>
    /\ frame.object = PlainObject("e1")
    /\ frame.result.title = "VSD Error"
    /\ frame.requests = <<>>

\* C6: the session CurrentSession() returns is authenticated: after a Start
\* that returned an error, it is not the session of that Start.
C6_CurrentSessionAuthenticated ==
    frame.op = "Start" /\ frame.result.kind = "error" => currentSession # frame.s

\* C7: FetchEntity, SaveEntity and DeleteEntity send their request to the
\* personal URL: baseURL/name for a root, whatever its identifier,
\* baseURL/category/identifier for another resource with an identifier (a
\* resubmission adding the response choice); without identifier they return
\* the 'no ID set' error and send nothing.
C7_PersonalURL ==
    frame.op \in EntityOps =>
        IF frame.object.rootable THEN
            /\ Dispatched
            /\ frame.requests[1].url = BaseURL \o "/" \o frame.object.name
            /\ Resubmitted
        ELSE IF frame.object.id # "" THEN
            /\ Dispatched
            /\ frame.requests[1].url
                   = BaseURL \o "/" \o frame.object.category \o "/" \o frame.object.id
            /\ Resubmitted
        ELSE
            /\ frame.requests = <<>>
            /\ frame.result = NewBambouError(
                   "VSD error", "Cannot GetPersonalURL of an object with no ID set")

\* An identified root was saved at the URL of its name.
C7_Witness ==
    /\ frame.op = "SaveEntity"
    /\ frame.object = RootObject("r1", "rid")
    /\ Len(frame.requests) = 1
    /\ frame.requests[1].url = "https://vsd:8443/api/me"
    /\ frame.result.kind = "ok"

\* text is the decimal text of the natural number n.
IsDecimalOf(text, n) ==
    /\ Len(text) > 0
    /\ \A i \in 1 .. Len(text) : text[i] \in Digits
    /\ Len(text) > 1 => text[1] # "0"
    /\ ParseDigits(text, 0) = n

\* C8: a request built with a FetchingInfo has no X-Nuage-Page header when
\* page is -1, and has it with the decimal text of page when page >= 0.
C8_PageHeader ==
    frame.op = "FetchChildren" /\ ~frame.info.nil =>
        \A i \in 1 .. Len(frame.requests) :
            /\ frame.info.Page = -1 => ~Has(frame.requests[i].hdr, "X-Nuage-Page")
            /\ frame.info.Page >= 0 =>
                   /\ Has(frame.requests[i].hdr, "X-Nuage-Page")
                   /\ IsDecimalOf(frame.requests[i].hdr["X-Nuage-Page"], frame.info.Page)

\* C9: the resubmission of a request with a body has the method and the body
\* of the original request.
C9_ResubmissionKeepsBody ==
    frame.op \in BodyOps =>
        \A i \in 2 .. Len(frame.requests) :
            /\ frame.requests[i].method = frame.requests[1].method
            /\ frame.requests[i].body = frame.requests[1].body

\* The secret of the session of the call when it was called: the API key of
\* its root if there is one, the password otherwise.
ExpectedSecret ==
    IF frame.keyAtCall[session[frame.s].root] # NoBytes
    THEN frame.keyAtCall[session[frame.s].root]
    ELSE session[frame.s].Password

\* C10: in password mode with a username, every request transmitted carries
\* Authorization: "XREST " + base64(username:secret), the secret being the API
\* key of the root when the request is built if it has one, the password
\* otherwise.
C10_SecretSelection ==
    /\ frame.op \in StorerOps \cup {"Start"}
    /\ ~session[frame.s].Certificate
    /\ session[frame.s].Username # NoBytes
    /\ session[frame.s].root # Nil
    => \A i \in 1 .. Len(frame.requests) :
           /\ Has(frame.requests[i].hdr, "Authorization")
           /\ frame.requests[i].hdr["Authorization"]
                  = XRESTPrefix
                      \o EncodeToString(session[frame.s].Username \o Colon
                                          \o ExpectedSecret)

====
